---- MODULE Spec2Model ----
(***************************************************************************)
(* Model of the book ingestion pipeline of download.py: source resolution, *)
(* per-source fetch with fallback, PDF text extraction with OCR fallback,  *)
(* and the idempotent upsert into the books table, driven by               *)
(* process_input over a batch of requests.                                 *)
(*                                                                         *)
(* Conventions.  A Python value that may be None is a sequence of length   *)
(* at most one: None is <<>> and a present value v is <<v>>.  A URL is a   *)
(* sequence of lexemes (strings); the empty URL is the empty sequence.     *)
(* Texts, titles, authors and categories are strings.                      *)
(***************************************************************************)
EXTENDS Integers, Sequences, FiniteSets, TLC

VARIABLES
    store,      \* the books table: a set of rows
    web,        \* what the remote hosts answer, per URL, once asked
    host,       \* which OCR tools the host has, once probed
    data,       \* data[p]: the batch process p reads from its input
    run,        \* run[p]: how many times p has been started on its batch
    pc,         \* pc[p]: where p is inside process_input
    idx,        \* idx[p]: position in the batch of the request p is at
    dl,         \* dl[p]: the downloader object of the current request
    cand,       \* cand[p]: index of the next candidate URL to request
    resp,       \* resp[p]: the response the current fetch holds, or None
    result,     \* result[p]: the (text, url) pair download() returned
    ops,        \* ops[p]: external calls made for the current request
    pauses,     \* pauses[p]: time units slept by time.sleep in the current run
    snap,       \* snap[p]: the table as each finished run of p left it
    cut,        \* cut[p]: the table as each terminated run of p left it
    calls       \* calls[p]: what process_input called to resolve the last
                \* request it took up

vars == <<store, web, host, data, run, pc, idx, dl, cand, resp, result, ops,
          pauses, snap, cut, calls>>

-----------------------------------------------------------------------------
(* Bounds of the model *)

MaxBatch == 2
MaxRuns == 2
MaxBatchConc == 1
MaxKills == 1
MaxBatchKill == 2
MaxUrlLen == 3

-----------------------------------------------------------------------------
(* Python values *)

None == <<>>
Some(v) == <<v>>
Val(o) == o[1]

Procs == {1, 2}

\* str.strip() on the texts the model uses
Strip(s) ==
    CASE s = " " -> ""
      [] s = " a " -> "a"
      [] s = " b" -> "b"
      [] OTHER -> s

\* sequence helpers on lexeme sequences
Drop(s, n) == SubSeq(s, n + 1, Len(s))
Take(s, n) == SubSeq(s, 1, n)

\* first index >= from at which s holds lexeme t, or 0
IndexFrom(s, t, from) ==
    IF \E i \in from..Len(s) : s[i] = t
    THEN CHOOSE i \in from..Len(s) : s[i] = t /\ \A j \in from..(i - 1) : s[j] # t
    ELSE 0

\* the `in` test of a lexeme in a URL
Contains(s, t) == \E i \in 1..Len(s) : s[i] = t

\* s.split(t): the pieces of s between the occurrences of t
RECURSIVE Split(_, _)
Split(s, t) ==
    LET i == IndexFrom(s, t, 1)
    IN  IF i = 0 THEN <<s>>
        ELSE <<Take(s, i - 1)>> \o Split(Drop(s, i), t)

Digits == {"0", "1", "2", "3", "4", "5", "6", "7", "8", "9"}

DigitVal(d) ==
    CASE d = "0" -> 0 [] d = "1" -> 1 [] d = "2" -> 2 [] d = "3" -> 3
      [] d = "4" -> 4 [] d = "5" -> 5 [] d = "6" -> 6 [] d = "7" -> 7
      [] d = "8" -> 8 [] d = "9" -> 9

RECURSIVE DecimalValue(_)
DecimalValue(s) ==
    IF s = <<>> THEN 0
    ELSE 10 * DecimalValue(Take(s, Len(s) - 1)) + DigitVal(s[Len(s)])

\* int(s): None stands for the ValueError of a non-numeric or empty string
ParseInt(s) ==
    IF s # <<>> /\ \A i \in 1..Len(s) : s[i] \in Digits
    THEN Some(DecimalValue(s))
    ELSE None

-----------------------------------------------------------------------------
(* The downloaders: class attributes, match_downloader and get_id *)

DOWNLOADERS ==
    <<"GutenbergDownloader", "InternetArchiveDownloader", "GoogleBooksDownloader">>

domain(cls) ==
    CASE cls = "GutenbergDownloader" -> "gutenberg.org"
      [] cls = "InternetArchiveDownloader" -> "archive.org"
      [] cls = "GoogleBooksDownloader" -> "books.google."

\* GoogleBooksDownloader with the name of InternetArchiveDownloader
NameCopied(cls) ==
    CASE cls = "GutenbergDownloader" -> "gutenberg_id"
      [] cls = "InternetArchiveDownloader" -> "ia_title_id"
      [] cls = "GoogleBooksDownloader" -> "ia_title_id"

name(cls) ==
    CASE cls = "GutenbergDownloader" -> "gutenberg_id"
      [] cls = "InternetArchiveDownloader" -> "ia_title_id"
      [] cls = "GoogleBooksDownloader" -> "gb_title_id"

\* a fresh downloader object: __init__ sets id and book to None
NewDownloader(cls) == [cls |-> cls, id |-> None, book |-> None]

NoDownloader == [cls |-> "", id |-> None, book |-> None]

\* the matching that takes the last class, in list order, whose domain is in
\* the URL
MatchLast(classes, url) ==
    IF \E i \in 1..Len(classes) : Contains(url, domain(classes[i]))
    THEN LET i == CHOOSE k \in 1..Len(classes) :
                     /\ Contains(url, domain(classes[k]))
                     /\ \A j \in (k + 1)..Len(classes) :
                            ~Contains(url, domain(classes[j]))
         IN  Some(NewDownloader(classes[i]))
    ELSE None

\* Downloaders.match_downloader: the first class, in list order, whose domain
\* is in the URL; None when there is none
match_downloader(classes, url) ==
    IF \E i \in 1..Len(classes) : Contains(url, domain(classes[i]))
    THEN LET i == CHOOSE k \in 1..Len(classes) :
                     /\ Contains(url, domain(classes[k]))
                     /\ \A j \in 1..(k - 1) : ~Contains(url, domain(classes[j]))
         IN  Some(NewDownloader(classes[i]))
    ELSE None

\* lexemes that hold the character the regular expressions exclude
SlashLexemes ==
    {"/", "/ebooks/", "/details/", "/books/edition/", "/books", "https://",
     "https://www."}
QuestionLexemes == {"?"}
AmpLexemes == {"&"}
\* lexemes whose last character is a word character (for \b)
WordEndLexemes ==
    Digits \cup {"a", "b", "g", "x", "com", "gutenberg.org", "archive.org",
                 "example.com", "/books", "v"}

\* the longest run of lexemes of s from position i on, none of them in stop
RECURSIVE RunFrom(_, _, _)
RunFrom(s, i, stop) ==
    IF i > Len(s) \/ s[i] \in stop THEN <<>>
    ELSE <<s[i]>> \o RunFrom(s, i + 1, stop)

\* r"/books/edition/[^/]+/([^?\/]+)" matched with its first lexeme at i
EditionAt(url, i) ==
    LET seg == RunFrom(url, i + 1, SlashLexemes)
        j == i + 1 + Len(seg)
        cap == RunFrom(url, j + 1, QuestionLexemes \cup SlashLexemes)
    IN  IF /\ url[i] = "/books/edition/"
           /\ seg # <<>>
           /\ j <= Len(url) /\ url[j] = "/"
           /\ cap # <<>>
        THEN Some(cap) ELSE None

\* r"\bid=([^&]+)" matched with its first lexeme at i
IdParamAt(url, i) ==
    LET cap == RunFrom(url, i + 1, AmpLexemes)
    IN  IF /\ url[i] = "id="
           /\ (i = 1 \/ url[i - 1] \notin WordEndLexemes)
           /\ cap # <<>>
        THEN Some(cap) ELSE None

\* r"/books\?id=([^&]+)" matched with its first lexeme at i
BooksIdAt(url, i) ==
    LET cap == RunFrom(url, i + 3, AmpLexemes)
    IN  IF /\ i + 2 <= Len(url)
           /\ url[i] = "/books" /\ url[i + 1] = "?" /\ url[i + 2] = "id="
           /\ cap # <<>>
        THEN Some(cap) ELSE None

\* the k-th pattern of GoogleBooksDownloader.get_id matched at position i
PatternAt(k, url, i) ==
    CASE k = 1 -> EditionAt(url, i)
      [] k = 2 -> IdParamAt(url, i)
      [] k = 3 -> BooksIdAt(url, i)

\* re.search: the match at the leftmost position, None when there is none
Search(k, url) ==
    IF \E i \in 1..Len(url) : PatternAt(k, url, i) # None
    THEN PatternAt(k, url,
             CHOOSE i \in 1..Len(url) :
                 /\ PatternAt(k, url, i) # None
                 /\ \A j \in 1..(i - 1) : PatternAt(k, url, j) = None)
    ELSE None

\* GutenbergDownloader.get_id: the downloader after the call; its id is the
\* value get_id returns
GutenbergGetId(d, url) ==
    IF ~Contains(url, "/ebooks/") THEN d
    ELSE [d EXCEPT !.id = ParseInt(Split(Split(url, "/ebooks/")[2], "?")[1])]

\* InternetArchiveDownloader.get_id
InternetArchiveGetId(d, url) ==
    IF ~Contains(url, "/details/") THEN d
    ELSE [d EXCEPT !.id = Some(Split(Split(url, "/details/")[2], "/")[1])]

\* GoogleBooksDownloader.get_id: the three patterns in order, first match wins
GoogleBooksGetId(d, url) ==
    IF \E k \in 1..3 : Search(k, url) # None
    THEN [d EXCEPT !.id =
              Search(CHOOSE k \in 1..3 :
                         /\ Search(k, url) # None
                         /\ \A j \in 1..(k - 1) : Search(j, url) = None, url)]
    ELSE d

get_id(d, url) ==
    CASE d.cls = "GutenbergDownloader" -> GutenbergGetId(d, url)
      [] d.cls = "InternetArchiveDownloader" -> InternetArchiveGetId(d, url)
      [] d.cls = "GoogleBooksDownloader" -> GoogleBooksGetId(d, url)

-----------------------------------------------------------------------------
(* The batch: requests as the records json.loads returns *)

UrlGutenberg == <<"https://www.", "gutenberg.org", "/ebooks/", "1">>
UrlGutenbergQuery ==
    <<"https://www.", "gutenberg.org", "/ebooks/", "0", "1", "?", "x">>
UrlGutenbergBad == <<"https://www.", "gutenberg.org", "/ebooks/", "x">>
UrlArchive == <<"https://", "archive.org", "/details/", "a", "/", "x">>
UrlGoogle ==
    <<"https://", "books.google.", "com", "/books", "?", "id=", "g", "&", "x">>
UrlOther == <<"https://", "example.com", "/", "x">>

\* a title holding a lone surrogate, as json.loads makes of "\ud800"; sqlite3
\* cannot encode it as UTF-8 and raises when it is bound to a statement
LoneSurrogate == "<U+D800>"

\* a request is a sequence of <<key, value>> pairs, in the order of the record
RequestPool ==
    << << <<"url", UrlGutenberg>>, <<"title", "T1">> >>,
       << <<"URL", UrlGutenbergQuery>>, <<"Title", "T2">>, <<"Author", "A">>,
          <<"Category", "C">> >>,
       << <<"url", UrlGutenberg>>, <<"title", LoneSurrogate>> >>,
       << <<"url", UrlArchive>>, <<"title", "T1">>, <<"author", "">> >>,
       << <<"url", UrlGoogle>>, <<"title", "T1">> >>,
       << <<"url", UrlGutenbergBad>>, <<"title", "T1">> >> >>

\* the lexemes of the URLs that resolution is tried on: the domain of each
\* source, the path segments and the parameter the identifier rules look
\* for, and characters of identifiers and separators
UrlLexemes ==
    {"gutenberg.org", "archive.org", "books.google.", "/ebooks/", "/details/",
     "id=", "1", "a", "/", "?"}

\* the URLs of at most n lexemes, the empty URL included
Urls(n) == UNION {[1..k -> UrlLexemes] : k \in 0..n}

\* requests on these URLs: with a title, with an empty title, with an empty
\* title under another spelling of the key, without a title, and a request
\* without a URL
UrlRequests(n) ==
    {<< <<"url", u>>, <<"title", t>> >> : u \in Urls(n), t \in {"T1", ""}}
    \cup {<< <<"url", u>>, <<"title", "T1">>, <<"Title", "">> >> : u \in Urls(n)}
    \cup {<< <<"url", u>> >> : u \in Urls(n)}
    \cup {<< <<"title", "T1">> >>}

\* str.lower() on the keys the requests use
Lower(k) ==
    CASE k = "URL" -> "url"
      [] k = "Title" -> "title"
      [] k = "Author" -> "author"
      [] k = "Category" -> "category"
      [] OTHER -> k

\* {k.lower(): v for k, v in item.items()}.get(key): the value of the last
\* pair whose lowered key is key, None when there is none
Get(item, key) ==
    IF \E i \in 1..Len(item) : Lower(item[i][1]) = key
    THEN LET i == CHOOSE k \in 1..Len(item) :
                     /\ Lower(item[k][1]) = key
                     /\ \A j \in (k + 1)..Len(item) : Lower(item[j][1]) # key
         IN  Some(item[i][2])
    ELSE None

\* `s is None` in the place of `not s`
IsNone(o) == o = None

\* `not url` and `not s` of an optional URL and an optional string
NotUrl(o) == o = None \/ Val(o) = <<>>
NotStr(o) == o = None \/ Val(o) = ""

\* the value as it is, and the empty string for None
OrEmpty(o, default) == IF o = None THEN "" ELSE Val(o)

\* `s or default`
OrDefault(o, default) == IF NotStr(o) THEN default ELSE Val(o)

\* what sqlite3 can bind as a TEXT parameter
Bindable(s) == s # LoneSurrogate

-----------------------------------------------------------------------------
(* The books table *)

NULL == <<>>

\* the pre-check without its WHERE clause's effect: no row is ever found
SelectNothing(rows, column, source_id) == FALSE

\* SELECT 1 FROM books WHERE <column> = ? ... fetchone()
SelectOne(rows, column, source_id) ==
    \E r \in rows : r[column] = Some(source_id)

\* the rowid an INTEGER PRIMARY KEY gets on insert
NextRowId(rows) ==
    IF rows = {} THEN 1
    ELSE (CHOOSE n \in {r.id : r \in rows} : \A r \in rows : r.id <= n) + 1

\* the statement without its ON CONFLICT clause and with no unique index: a
\* plain INSERT
UpsertInsertOnly(rows, column, title_id, author, title, category, url, text) ==
    rows \cup
    {[[id |-> NextRowId(rows), gutenberg_id |-> NULL, ia_title_id |-> NULL,
       gb_title_id |-> NULL, author |-> author, title |-> title,
       category |-> category, source_url |-> url, content |-> text]
      EXCEPT ![column] = Some(title_id)]}

\* the statement with the identifier column left out of its column list
UpsertWithoutKey(rows, column, title_id, author, title, category, url, text) ==
    rows \cup
    {[id |-> NextRowId(rows), gutenberg_id |-> NULL, ia_title_id |-> NULL,
      gb_title_id |-> NULL, author |-> author, title |-> title,
      category |-> category, source_url |-> url, content |-> text]}

\* INSERT OR REPLACE on a table whose rowids are never used again: the row in
\* conflict is deleted and the new one gets a new rowid
UpsertReplace(rows, column, title_id, author, title, category, url, text) ==
    {r \in rows : r[column] # Some(title_id)} \cup
    {[[id |-> NextRowId(rows), gutenberg_id |-> NULL, ia_title_id |-> NULL,
       gb_title_id |-> NULL, author |-> author, title |-> title,
       category |-> category, source_url |-> url, content |-> text]
      EXCEPT ![column] = Some(title_id)]}

\* the statement with ON CONFLICT(<column>) DO NOTHING: the first writer's row
\* is kept
UpsertDoNothing(rows, column, title_id, author, title, category, url, text) ==
    IF \E r \in rows : r[column] = Some(title_id)
    THEN rows
    ELSE rows \cup
         {[[id |-> NextRowId(rows), gutenberg_id |-> NULL, ia_title_id |-> NULL,
            gb_title_id |-> NULL, author |-> author, title |-> title,
            category |-> category, source_url |-> url, content |-> text]
           EXCEPT ![column] = Some(title_id)]}

\* INSERT INTO books (<column>, author, title, category, source_url, content)
\* VALUES (...) ON CONFLICT(<column>) DO UPDATE SET title, category,
\* source_url, content, author; url and text are bound as they are, None as
\* NULL
Upsert(rows, column, title_id, author, title, category, url, text) ==
    IF \E r \in rows : r[column] = Some(title_id)
    THEN {IF r[column] = Some(title_id)
          THEN [r EXCEPT !.title = title, !.category = category,
                         !.source_url = url, !.content = text,
                         !.author = author]
          ELSE r : r \in rows}
    ELSE rows \cup
         {[[id |-> NextRowId(rows), gutenberg_id |-> NULL, ia_title_id |-> NULL,
            gb_title_id |-> NULL, author |-> author, title |-> title,
            category |-> category, source_url |-> url, content |-> text]
           EXCEPT ![column] = Some(title_id)]}

-----------------------------------------------------------------------------
(* The remote hosts and the host's tools *)

\* what pdfminer's extract_text does with a PDF: raise, or return a text
NoPdf == [size |-> 0, raises |-> FALSE, text |-> "", ocr_fails |-> TRUE,
          ocr_raises |-> FALSE, ocr_text |-> ""]

MinPdfSize == 50000

\* PDF bodies: size in bytes, what extract_text gives for them, whether
\* ocrmypdf fails on them, and what extract_text gives for ocrmypdf's output
PdfSmall == [NoPdf EXCEPT !.size = MinPdfSize - 1, !.text = " a "]
PdfText == [NoPdf EXCEPT !.size = MinPdfSize, !.text = " a "]
PdfScan == [NoPdf EXCEPT !.size = MinPdfSize, !.text = "", !.ocr_fails = FALSE,
                         !.ocr_text = " b"]
PdfBlank == [NoPdf EXCEPT !.size = MinPdfSize + 1, !.text = " "]
PdfBroken == [NoPdf EXCEPT !.size = MinPdfSize, !.raises = TRUE,
                           !.ocr_fails = FALSE, !.ocr_text = " "]

\* JSON documents of the volumes API: r.json() raises on "invalid"; an
\* "object" has `keys` keys, of which accessInfo.pdf is modelled; dict tells
\* whether that member is itself an object
NoJson == [kind |-> "invalid", keys |-> 0, pdf |-> None]
JsonEmpty == [kind |-> "object", keys |-> 0, pdf |-> None]
JsonArray == [kind |-> "array", keys |-> 1, pdf |-> None]
JsonNoAccess == [kind |-> "object", keys |-> 1, pdf |-> None]
PdfLink == <<"https://", "books.google.", "com", "/books", "/download/", "g.pdf">>
JsonUnavailable ==
    [kind |-> "object", keys |-> 2,
     pdf |-> Some([dict |-> TRUE, isAvailable |-> FALSE,
                   downloadLink |-> Some(PdfLink)])]
JsonNoLink ==
    [kind |-> "object", keys |-> 2,
     pdf |-> Some([dict |-> TRUE, isAvailable |-> TRUE, downloadLink |-> None])]
JsonAvailable ==
    [kind |-> "object", keys |-> 2,
     pdf |-> Some([dict |-> TRUE, isAvailable |-> TRUE,
                   downloadLink |-> Some(PdfLink)])]
\* {"accessInfo": {"pdf": "none"}}: the member is a string
JsonPdfText ==
    [kind |-> "object", keys |-> 1,
     pdf |-> Some([dict |-> FALSE, isAvailable |-> FALSE, downloadLink |-> None])]

\* a response of SESSION.get; exc is a request that raises instead
Response(exc, status_code, text, json, content) ==
    [exc |-> exc, status_code |-> status_code, text |-> text, json |-> json,
     content |-> content]

Raised == Response(TRUE, 0, "", NoJson, NoPdf)

TextResponses ==
    {Raised,
     Response(FALSE, 404, "Not Found", NoJson, NoPdf),
     Response(FALSE, 200, " ", NoJson, NoPdf),
     Response(FALSE, 200, " a ", NoJson, NoPdf)}

JsonResponses ==
    {Raised,
     Response(FALSE, 404, "", JsonAvailable, NoPdf),
     Response(FALSE, 200, "", NoJson, NoPdf)}
    \cup {Response(FALSE, 200, "", j, NoPdf) :
            j \in {JsonEmpty, JsonArray, JsonNoAccess, JsonPdfText,
                   JsonUnavailable, JsonNoLink, JsonAvailable}}

PdfResponses ==
    {Raised, Response(FALSE, 404, "", NoJson, PdfText)}
    \cup {Response(FALSE, 200, "", NoJson, c) :
            c \in {PdfSmall, PdfText, PdfScan, PdfBlank, PdfBroken}}

\* what a host can answer to a GET of url
Responses(url) ==
    IF url = PdfLink THEN PdfResponses
    ELSE IF url[1] = "https://www.googleapis.com/books/v1/volumes/"
    THEN JsonResponses
    ELSE TextResponses

\* what the program can tell of a response: a request that raises and a
\* status other than 200 are both a failed request
Seen(r) == IF r.exc \/ r.status_code # 200 THEN Raised ELSE r

\* the hosts answer a URL the same way every time it is asked: web keeps what
\* was seen of the first answer, and a failing URL fails again, by an error
\* or by a status
Answers(url) ==
    {r \in Responses(url) : url \in DOMAIN web => Seen(r) = web[url]}

Asked(url, r) ==
    [u \in DOMAIN web \cup {url} |-> IF u = url THEN Seen(r) ELSE web[u]]

\* shutil.which and the --api-key argument: fixed for the host, read lazily
HostKeys == {"tesseract", "gswin64c", "gs", "api_key"}

Hosts == {h \in [HostKeys -> BOOLEAN] : \A k \in DOMAIN host : h[k] = host[k]}

Probed(h, keys) == [k \in DOMAIN host \cup keys |-> h[k]]

ApiKey == "k y"
\* urllib.parse.quote
quote(s) == IF s = "k y" THEN "k%20y" ELSE s

-----------------------------------------------------------------------------
(* Text extraction from a PDF *)

Event(op, arg) == [op |-> op, arg |-> arg]

\* extract_text(...) guarded by `text and text.strip()` and `except Exception`
Extracted(raises, text) ==
    IF ~raises /\ text # "" /\ Strip(text) # "" THEN Some(text) ELSE None

\* extract_text_from_pdf: the text or None, and the external calls made
extract_text_from_pdf(pdf) ==
    [text |-> Extracted(pdf.raises, pdf.text),
     ops |-> <<Event("extract_text", <<"pdf.content">>)>>,
     probes |-> {}]

\* extract_ocr_from_pdf on a host h: the text or None, the external calls
\* made, and the tools probed with shutil.which
extract_ocr_from_pdf(pdf, h) ==
    IF ~h["tesseract"]
    THEN [text |-> None, ops |-> <<>>, probes |-> {"tesseract"}]
    ELSE IF ~h["gswin64c"] /\ ~h["gs"]
    THEN [text |-> None, ops |-> <<>>, probes |-> {"tesseract", "gswin64c", "gs"}]
    ELSE LET probes == IF h["gswin64c"] THEN {"tesseract", "gswin64c"}
                       ELSE {"tesseract", "gswin64c", "gs"}
             run_ocr == Event("ocrmypdf", <<"pdf.content">>)
         IN  IF pdf.ocr_fails
             THEN [text |-> None, ops |-> <<run_ocr>>, probes |-> probes]
             ELSE [text |-> Extracted(pdf.ocr_raises, pdf.ocr_text),
                   ops |-> <<run_ocr, Event("extract_text", <<"proc.stdout">>)>>,
                   probes |-> probes]

\* the conversion with OCR run whatever the direct extraction gave
ConvertAlwaysOcr(pdf, h) ==
    LET direct == extract_text_from_pdf(pdf)
        ocr == extract_ocr_from_pdf(pdf, h)
    IN  [text |-> IF direct.text # None THEN direct.text ELSE ocr.text,
         ops |-> direct.ops \o ocr.ops,
         probes |-> ocr.probes]

convert_pdf_to_text(pdf, h) ==
    LET direct == extract_text_from_pdf(pdf)
        ocr == extract_ocr_from_pdf(pdf, h)
    IN  IF direct.text # None THEN direct
        ELSE [text |-> ocr.text, ops |-> direct.ops \o ocr.ops,
              probes |-> ocr.probes]

-----------------------------------------------------------------------------
(* download() of the three sources *)

\* the candidate URLs of GutenbergDownloader.download, in order
GutenbergUrls(id) ==
    << <<"https://www.gutenberg.org/files/", ToString(id), "/", ToString(id),
         "-0.txt">>,
       <<"https://www.gutenberg.org/files/", ToString(id), "/", ToString(id),
         ".txt">>,
       <<"https://www.gutenberg.org/ebooks/", ToString(id), ".txt.utf-8">> >>

\* the candidate URLs of InternetArchiveDownloader.download, in order
InternetArchiveUrls(id) ==
    << <<"https://archive.org/download/">> \o id \o <<"/">> \o id
           \o <<"_djvu.txt">>,
       <<"https://archive.org/download/">> \o id \o <<"/">> \o id
           \o <<".txt">> >>

CandidateUrls(d) ==
    IF d.cls = "GutenbergDownloader" THEN GutenbergUrls(Val(d.id))
    ELSE InternetArchiveUrls(Val(d.id))

\* the URL of the volumes API in GoogleBooksDownloader.download
VolumeUrl(id, with_key) ==
    <<"https://www.googleapis.com/books/v1/volumes/">> \o id
        \o (IF with_key THEN <<"?key=", quote(ApiKey)>> ELSE <<>>)

NoResult == <<None, None>>

\* the test that also wants a body that is not blank
FetchedWithBody(r) == ~r.exc /\ r.status_code = 200 /\ Strip(r.text) # ""

\* _download_text's test of one response
Fetched(r) == ~r.exc /\ r.status_code = 200

\* `if r and r.text.strip(): return r.text, url` / `return None, None`
TextResult(r, url) ==
    IF Strip(r.text) # "" THEN <<Some(r.text), Some(url)>> ELSE NoResult

\* _get_json: the decoded document, None on an error, a status other than
\* 200 or a body that is not JSON
get_json(r) ==
    IF ~r.exc /\ r.status_code = 200 /\ r.json.kind # "invalid"
    THEN Some(r.json) ELSE None

\* `not meta` of a decoded document
NotMeta(m) == m = None \/ Val(m).keys = 0

\* extract_pdf up to its request: "AttributeError" when meta, or the pdf
\* member of its accessInfo, has no get; "none" when no PDF is offered, else
\* "link"
DownloadLink(meta) ==
    IF meta.kind # "object" THEN "AttributeError"
    ELSE IF meta.pdf # None /\ ~Val(meta.pdf).dict THEN "AttributeError"
    ELSE IF meta.pdf = None \/ ~Val(meta.pdf).isAvailable THEN "none"
    ELSE IF Val(meta.pdf).downloadLink = None THEN "none"
    ELSE "link"

\* the test without the size check
PdfRejectedByStatus(r) == r.exc \/ r.status_code # 200

\* extract_pdf's test of the PDF response
PdfRejected(r) ==
    r.exc \/ r.status_code # 200 \/ r.content.size < MinPdfSize

-----------------------------------------------------------------------------
(* process_input and store_in_db, step by step *)

\* lines 308-325 of process_input: the downloader with its id, or None when
\* the request is dropped, and what was called for the request, in order:
\* match_downloader on the URL, get_id of the class matched, and the
\* pre-check on that class's column
Resolution(item) ==
    LET url == Get(item, "url")
        book_title == Get(item, "title")
    IN  IF NotUrl(url) \/ NotStr(book_title)
        THEN [d |-> None, calls |-> <<>>]
        ELSE LET m == match_downloader(DOWNLOADERS, Val(url))
                 matched == <<Event("match_downloader", Val(url))>>
             IN  IF m = None THEN [d |-> None, calls |-> matched]
                 ELSE LET d == get_id(Val(m), Val(url))
                          asked == matched \o <<Event("get_id", <<d.cls>>)>>
                      IN  IF d.id = None THEN [d |-> None, calls |-> asked]
                          ELSE [d |-> Some(d),
                                calls |-> asked
                                    \o <<Event("SELECT", <<name(d.cls)>>)>>]

Resolved(item) == Resolution(item).d

\* downloader.book = (source_id, book_title, author, category)
Book(d, item) ==
    <<Val(d.id), Val(Get(item, "title")),
      OrDefault(Get(item, "author"), "Unknown"),
      OrDefault(Get(item, "category"), "Uncategorized")>>

\* process_input without its pre-check
NeverStored(rows, d) == FALSE

\* cursor.execute("SELECT 1 FROM books WHERE ...") and cursor.fetchone()
AlreadyStored(rows, d) == SelectOne(rows, name(d.cls), Val(d.id))

Set(f, p, v) == [f EXCEPT ![p] = v]

\* the request is over: the loop moves to the next one
NextRequest(p) ==
    /\ idx' = Set(idx, p, idx[p] + 1)
    /\ pc' = Set(pc, p, "loop")
    /\ dl' = Set(dl, p, NoDownloader)
    /\ cand' = Set(cand, p, 1)
    /\ resp' = Set(resp, p, None)
    /\ result' = Set(result, p, NoResult)
    /\ ops' = Set(ops, p, <<>>)

\* an exception leaves process_input: main closes the connection and the
\* process ends
Raise(p) ==
    /\ pc' = Set(pc, p, "aborted")
    /\ snap' = Set(snap, p, Append(snap[p], store))
    /\ dl' = Set(dl, p, NoDownloader)
    /\ cand' = Set(cand, p, 1)
    /\ resp' = Set(resp, p, None)
    /\ result' = Set(result, p, NoResult)
    /\ UNCHANGED <<idx, pauses>>

\* download() returns res, its last response being r (None when the request
\* raised or none was made): store_in_db goes on with `if text:`
Return(p, res, r) ==
    /\ result' = Set(result, p, res)
    /\ pc' = Set(pc, p, "store")
    /\ cand' = Set(cand, p, 1)
    /\ resp' = Set(resp, p, r)
    /\ UNCHANGED <<dl, idx, pauses, snap>>

\* one iteration of the loop up to the call of store_in_db: the request is
\* dropped, skipped as already stored, or handed to its downloader
Iterate(p) ==
    /\ pc[p] = "loop"
    /\ idx[p] <= Len(data[p])
    /\ LET item == data[p][idx[p]]
           res == Resolution(item)
           d == res.d
       IN  /\ calls' = Set(calls, p, res.calls)
           /\ IF d = None \/ AlreadyStored(store, Val(d))
              THEN NextRequest(p)
              ELSE /\ dl' = Set(dl, p, [Val(d) EXCEPT
                                           !.book = Some(Book(Val(d), item))])
                   /\ pc' = Set(pc, p, "download")
                   /\ UNCHANGED <<idx, cand, resp, result, ops>>
    /\ UNCHANGED <<store, web, host, data, run, pauses, snap, cut>>

\* the loop is over: process_input returns
Finish(p) ==
    /\ pc[p] = "loop"
    /\ idx[p] > Len(data[p])
    /\ pc' = Set(pc, p, "done")
    /\ snap' = Set(snap, p, Append(snap[p], store))
    /\ UNCHANGED <<store, web, host, data, run, idx, dl, cand, resp, result,
                   ops, pauses, cut, calls>>

\* Gutenberg and Internet Archive: one request of _download_text, and the
\* end of download() when it was the last one
TextGet(p) ==
    /\ pc[p] = "download"
    /\ dl[p].cls \in {"GutenbergDownloader", "InternetArchiveDownloader"}
    /\ LET urls == CandidateUrls(dl[p])
           url == urls[cand[p]]
       IN  \E r \in Answers(url) :
             /\ web' = Asked(url, r)
             /\ ops' = Set(ops, p, Append(ops[p], Event("GET", url)))
             /\ IF Fetched(r) THEN Return(p, TextResult(r, url), Some(r))
                ELSE IF cand[p] < Len(urls)
                THEN /\ cand' = Set(cand, p, cand[p] + 1)
                     /\ UNCHANGED <<pc, dl, idx, resp, result, pauses, snap>>
                ELSE Return(p, NoResult, None)
    /\ UNCHANGED <<store, host, data, run, cut, calls>>

\* Google Books: the request of the volume's metadata, and extract_pdf up to
\* its request of the PDF
JsonGet(p) ==
    /\ pc[p] = "download"
    /\ dl[p].cls = "GoogleBooksDownloader"
    /\ \E h \in Hosts :
         LET url == VolumeUrl(Val(dl[p].id), h["api_key"])
         IN  \E r \in Answers(url) :
               /\ host' = Probed(h, {"api_key"})
               /\ web' = Asked(url, r)
               /\ ops' = Set(ops, p, Append(ops[p], Event("GET", url)))
               /\ LET meta == get_json(r)
                  IN  IF NotMeta(meta) THEN Return(p, NoResult, None)
                      ELSE IF DownloadLink(Val(meta)) = "AttributeError"
                      THEN Raise(p)
                      ELSE IF DownloadLink(Val(meta)) = "none"
                      THEN Return(p, NoResult, None)
                      ELSE /\ resp' = Set(resp, p, Some(r))
                           /\ pc' = Set(pc, p, "pdf")
                           /\ UNCHANGED <<dl, idx, cand, result, pauses, snap>>
    /\ UNCHANGED <<store, data, run, cut, calls>>

\* Google Books: extract_pdf's request of the PDF, its test of the response
\* and the conversion of the PDF to text
PdfGet(p) ==
    /\ pc[p] = "pdf"
    /\ LET download_url == Val(Val(Val(resp[p]).json.pdf).downloadLink)
       IN  \E r \in Answers(download_url), h \in Hosts :
             LET got == convert_pdf_to_text(r.content, h)
             IN  /\ web' = Asked(download_url, r)
                 /\ IF PdfRejected(r)
                    THEN /\ ops' = Set(ops, p, Append(ops[p], Event("GET", download_url)))
                         /\ host' = host
                         /\ Return(p, NoResult, IF r.exc THEN None ELSE Some(r))
                    ELSE /\ ops' = Set(ops, p, Append(ops[p], Event("GET", download_url))
                                                  \o got.ops)
                         /\ host' = Probed(h, got.probes)
                         /\ Return(p, <<got.text, Some(download_url)>>, Some(r))
    /\ UNCHANGED <<store, data, run, cut, calls>>

\* process_input without its pause
NoSleep(p, secs) == pauses' = pauses

\* time.sleep(secs) of process_input: the time units the run has paused
sleep(p, secs) == pauses' = Set(pauses, p, pauses[p] + secs)

\* store_in_db without its `if text:`
AlwaysTruthy(text) == TRUE

\* `if text:` of store_in_db
Truthy(text) == text # None /\ Val(text) # ""

\* store_in_db after download(): the upsert and its commit, or the warning;
\* then time.sleep(1) of process_input
Store(p) ==
    /\ pc[p] = "store"
    /\ LET book == Val(dl[p].book)
           text == result[p][1]
           url == result[p][2]
       IN  IF Truthy(text)
           THEN IF Bindable(book[2]) /\ Bindable(book[3]) /\ Bindable(book[4])
                THEN /\ store' = Upsert(store, name(dl[p].cls), book[1], book[3],
                                        book[2], book[4], url, text)
                     /\ sleep(p, 1)
                     /\ NextRequest(p)
                     /\ UNCHANGED snap
                ELSE /\ Raise(p)
                     /\ UNCHANGED <<store, ops>>
           ELSE /\ sleep(p, 1)
                /\ NextRequest(p)
                /\ UNCHANGED <<store, snap>>
    /\ UNCHANGED <<web, host, data, run, cut, calls>>

\* the program is started again on the same batch
Rerun(p) ==
    /\ pc[p] \in {"done", "aborted", "killed"}
    /\ run[p] < MaxRuns
    /\ run' = Set(run, p, run[p] + 1)
    /\ idx' = Set(idx, p, 1)
    /\ pc' = Set(pc, p, "loop")
    /\ pauses' = Set(pauses, p, 0)
    /\ ops' = Set(ops, p, <<>>)
    /\ UNCHANGED <<store, web, host, data, dl, cand, resp, result, snap, cut,
                   calls>>

\* a termination with which the row committed last is lost
KillLosesLast(p) ==
    /\ pc[p] \in {"loop", "download", "pdf", "store"}
    /\ Len(cut[p]) < MaxKills
    /\ pc' = Set(pc, p, "killed")
    /\ cut' = Set(cut, p, Append(cut[p], store))
    /\ store' = {r \in store : r.id + 1 # NextRowId(store)}
    /\ dl' = Set(dl, p, NoDownloader)
    /\ cand' = Set(cand, p, 1)
    /\ resp' = Set(resp, p, None)
    /\ result' = Set(result, p, NoResult)
    /\ UNCHANGED <<web, host, data, run, idx, ops, pauses, snap, calls>>

\* the process is terminated from outside, at any point of its batch, and
\* nothing of it runs any more; what it committed stays in the table (an
\* upsert in progress and not yet committed is rolled back: the process is
\* then as before its store_in_db)
Kill(p) ==
    /\ pc[p] \in {"loop", "download", "pdf", "store"}
    /\ Len(cut[p]) < MaxKills
    /\ pc' = Set(pc, p, "killed")
    /\ cut' = Set(cut, p, Append(cut[p], store))
    /\ dl' = Set(dl, p, NoDownloader)
    /\ cand' = Set(cand, p, 1)
    /\ resp' = Set(resp, p, None)
    /\ result' = Set(result, p, NoResult)
    /\ UNCHANGED <<store, web, host, data, run, idx, ops, pauses, snap, calls>>

-----------------------------------------------------------------------------
(* Specifications *)

\* rows the table may hold before a run: written by an earlier run
PriorRow ==
    [id |-> 1, gutenberg_id |-> Some(1), ia_title_id |-> NULL,
     gb_title_id |-> NULL, author |-> "Unknown", title |-> "T0",
     category |-> "Uncategorized",
     source_url |-> Some(GutenbergUrls(1)[1]), content |-> Some("old")]

InitStores == {{}, {PriorRow}}

\* the batches of at most n requests, drawn from the requests numbered in pool
Batches(n, pool) ==
    UNION {{[i \in 1..k |-> RequestPool[f[i]]] : f \in [1..k -> pool]} :
             k \in 0..n}

AllRequests == 1..Len(RequestPool)
\* for two processes: two requests for one Gutenberg identifier that differ in
\* title, author and category, and one Google Books request
SharedRequests == {1, 2, 5}

\* one process, started up to MaxRuns times on its batch
Init ==
    /\ store \in InitStores
    /\ web = <<>>
    /\ host = <<>>
    /\ data \in [Procs -> Batches(MaxBatch, AllRequests)]
    /\ data[2] = <<>>
    /\ run = [p \in Procs |-> IF p = 1 THEN 1 ELSE 0]
    /\ pc = [p \in Procs |-> IF p = 1 THEN "loop" ELSE "idle"]
    /\ idx = [p \in Procs |-> 1]
    /\ dl = [p \in Procs |-> NoDownloader]
    /\ cand = [p \in Procs |-> 1]
    /\ resp = [p \in Procs |-> None]
    /\ result = [p \in Procs |-> NoResult]
    /\ ops = [p \in Procs |-> <<>>]
    /\ pauses = [p \in Procs |-> 0]
    /\ snap = [p \in Procs |-> <<>>]
    /\ cut = [p \in Procs |-> <<>>]
    /\ calls = [p \in Procs |-> <<>>]

Step(p) ==
    \/ Iterate(p)
    \/ Finish(p)
    \/ TextGet(p)
    \/ JsonGet(p)
    \/ PdfGet(p)
    \/ Store(p)

Next == \E p \in Procs : Step(p) \/ Rerun(p)

Spec == Init /\ [][Next]_vars

\* the batches of at most n requests as the numbers of their requests in
\* RequestPool, the batch of such numbers, and its place in a listing of them
Picks(n, pool) == UNION {[1..k -> pool] : k \in 0..n}
Batch(f) == [i \in 1..Len(f) |-> RequestPool[f[i]]]
RECURSIVE Place(_)
Place(f) ==
    IF Len(f) = 0 THEN 0
    ELSE Place(Take(f, Len(f) - 1)) * (Len(RequestPool) + 1) + f[Len(f)]

\* two processes on the same table, each started once on its own batch; the
\* two being alike, process 1 is the one whose batch is listed first
InitConc ==
    /\ store \in InitStores
    /\ web = <<>>
    /\ host = <<>>
    /\ \E f \in Picks(MaxBatchConc, SharedRequests),
          g \in Picks(MaxBatchConc, SharedRequests) :
           /\ Place(f) <= Place(g)
           /\ data = [p \in Procs |-> IF p = 1 THEN Batch(f) ELSE Batch(g)]
    /\ run = [p \in Procs |-> MaxRuns]
    /\ pc = [p \in Procs |-> "loop"]
    /\ idx = [p \in Procs |-> 1]
    /\ dl = [p \in Procs |-> NoDownloader]
    /\ cand = [p \in Procs |-> 1]
    /\ resp = [p \in Procs |-> None]
    /\ result = [p \in Procs |-> NoResult]
    /\ ops = [p \in Procs |-> <<>>]
    /\ pauses = [p \in Procs |-> 0]
    /\ snap = [p \in Procs |-> <<>>]
    /\ cut = [p \in Procs |-> <<>>]
    /\ calls = [p \in Procs |-> <<>>]

NextConc == \E p \in Procs : Step(p)

SpecConc == InitConc /\ [][NextConc]_vars

\* for a run that is terminated: requests for three identifiers, one from
\* each source, and the request whose title cannot be stored
KillRequests == {1, 3, 4, 5}

\* one process started once on one request, the URL being any of Urls
InitUrls ==
    /\ store \in InitStores
    /\ web = <<>>
    /\ host = <<>>
    /\ \E r \in UrlRequests(MaxUrlLen) :
           data = [p \in Procs |-> IF p = 1 THEN <<r>> ELSE <<>>]
    /\ run = [p \in Procs |-> IF p = 1 THEN MaxRuns ELSE 0]
    /\ pc = [p \in Procs |-> IF p = 1 THEN "loop" ELSE "idle"]
    /\ idx = [p \in Procs |-> 1]
    /\ dl = [p \in Procs |-> NoDownloader]
    /\ cand = [p \in Procs |-> 1]
    /\ resp = [p \in Procs |-> None]
    /\ result = [p \in Procs |-> NoResult]
    /\ ops = [p \in Procs |-> <<>>]
    /\ pauses = [p \in Procs |-> 0]
    /\ snap = [p \in Procs |-> <<>>]
    /\ cut = [p \in Procs |-> <<>>]
    /\ calls = [p \in Procs |-> <<>>]

NextUrls == \E p \in Procs : Step(p)

SpecUrls == InitUrls /\ [][NextUrls]_vars

\* one process with one more start left, terminated up to MaxKills times
InitKill ==
    /\ store \in InitStores
    /\ web = <<>>
    /\ host = <<>>
    /\ data \in [Procs -> Batches(MaxBatchKill, KillRequests)]
    /\ data[2] = <<>>
    /\ run = [p \in Procs |-> IF p = 1 THEN MaxRuns - 1 ELSE 0]
    /\ pc = [p \in Procs |-> IF p = 1 THEN "loop" ELSE "idle"]
    /\ idx = [p \in Procs |-> 1]
    /\ dl = [p \in Procs |-> NoDownloader]
    /\ cand = [p \in Procs |-> 1]
    /\ resp = [p \in Procs |-> None]
    /\ result = [p \in Procs |-> NoResult]
    /\ ops = [p \in Procs |-> <<>>]
    /\ pauses = [p \in Procs |-> 0]
    /\ snap = [p \in Procs |-> <<>>]
    /\ cut = [p \in Procs |-> <<>>]
    /\ calls = [p \in Procs |-> <<>>]

NextKill == \E p \in Procs : Step(p) \/ Rerun(p) \/ Kill(p)

SpecKill == InitKill /\ [][NextKill]_vars

-----------------------------------------------------------------------------
(* Properties *)

\* the request process p is at, while p is at the head of the loop
AtRequest(p) == pc[p] = "loop" /\ idx[p] <= Len(data[p])
Request(p) == data[p][idx[p]]

\* the column of each source kind
ColumnOf(cls) ==
    IF cls = "GutenbergDownloader" THEN "gutenberg_id"
    ELSE IF cls = "InternetArchiveDownloader" THEN "ia_title_id"
    ELSE "gb_title_id"

\* the rows of the table that hold the identifier of downloader d
RowsOf(rows, d) == {r \in rows : r[ColumnOf(d.cls)] = d.id}

\* p is at a request that resolves to an identifier the table holds
AtStored(p) ==
    /\ AtRequest(p)
    /\ Resolved(Request(p)) # None
    /\ RowsOf(store, Val(Resolved(Request(p)))) # {}

\* p takes a step of process_input
Moves(p) == <<pc[p], idx[p]>>' # <<pc[p], idx[p]>>

\* C1: when process_input reaches a request whose resolved identifier is
\* already in the table under its source's column, the request is over in
\* that step: no external call is made for it (no text fetch, no metadata
\* call, no PDF download, nothing asked of the hosts) and the table is
\* unchanged.
SkipFetchesNothing ==
    [][\A p \in Procs :
          (AtStored(p) /\ Moves(p)) =>
              /\ pc'[p] = "loop" /\ idx'[p] = idx[p] + 1
              /\ ops'[p] = <<>>
              /\ web' = web
              /\ store' = store]_vars

\* C1 witness: the first request of the first run was skipped: it resolves
\* to an identifier the table held, and no store attempt was made
SkipFetchesNothingWitness ==
    /\ run[1] = 1 /\ pc[1] = "loop" /\ idx[1] = 2 /\ pauses[1] = 0
    /\ Resolved(data[1][1]) # None
    /\ RowsOf(store, Val(Resolved(data[1][1]))) # {}
    /\ web = <<>>

\* a response with status 200 and a body that is not empty once trimmed
GoodText(url) ==
    /\ url \in DOMAIN web
    /\ ~web[url].exc /\ web[url].status_code = 200
    /\ Strip(web[url].text) # ""

\* p's download() of a plain-text source has returned
TextReturned(p) ==
    /\ pc[p] = "store"
    /\ dl[p].cls \in {"GutenbergDownloader", "InternetArchiveDownloader"}

\* C2: download() of a Gutenberg or Internet Archive identifier returns the
\* body and URL of the first candidate, in template order, that answers 200
\* with a non-empty trimmed body, and returns (None, None) only when every
\* candidate was asked and none answered so.
FirstGoodCandidateWins ==
    \A p \in Procs :
        TextReturned(p) =>
            LET urls == CandidateUrls(dl[p])
            IN  \/ \E i \in 1..Len(urls) :
                       /\ GoodText(urls[i])
                       /\ \A j \in 1..(i - 1) :
                              urls[j] \in DOMAIN web /\ ~GoodText(urls[j])
                       /\ result[p] = <<Some(web[urls[i]].text), Some(urls[i])>>
                \/ /\ result[p] = NoResult
                   /\ \A i \in 1..Len(urls) :
                          urls[i] \in DOMAIN web /\ ~GoodText(urls[i])

\* C3: no exception escapes a request's processing into the loop of
\* process_input, so that the batch is never aborted.
NoRequestAbortsBatch == \A p \in Procs : pc[p] # "aborted"

\* a row without its surrogate key
Fields(r) == [r EXCEPT !.id = 0]

\* C4: running process_input on the same batch again, the hosts answering
\* the same, leaves the table with the same number of rows and the same
\* identifier, title, author, category, source_url and content in each row as
\* the first run left.
RunTwiceAsOnce ==
    \A p \in Procs :
        \A k \in 2..Len(snap[p]) :
            /\ Cardinality(snap[p][k]) = Cardinality(snap[p][1])
            /\ {Fields(r) : r \in snap[p][k]} = {Fields(r) : r \in snap[p][1]}

\* C4 witness: the second run is over and the first one had written a row
RunTwiceAsOnceWitness ==
    /\ Len(snap[1]) = 2
    /\ \E r \in snap[1][1] : r.title = "T2"
    /\ \E i \in 1..Len(data[1]) : Resolved(data[1][i]) = None

IdColumns == {"gutenberg_id", "ia_title_id", "gb_title_id"}

\* C5: no two rows of the table hold the same non-null value in the same
\* identifier column.
UniqueIdentifiers ==
    \A c \in IdColumns :
        \A r1 \in store, r2 \in store :
            (r1[c] # NULL /\ r1[c] = r2[c]) => r1 = r2

\* both processes made a store attempt for their first request, and the
\* table holds one row, with title t: both requests passed the pre-check and
\* the second upsert met the row of the first
BothUpserted(t) ==
    /\ pauses[1] = 1 /\ pauses[2] = 1
    /\ Cardinality(store) = 1
    /\ \A r \in store : r.title = t

\* C5 witness: an upsert met a row with its identifier, the later writer
\* being process 2
UniqueIdentifiersWitness ==
    /\ BothUpserted("T2")
    /\ Get(data[1][1], "title") = Some("T1")
    /\ Get(data[2][1], "title") = Some("T2")

\* C6 as stated: once process_input has passed a request whose identifier
\* was already stored, the row of that identifier holds the request's title,
\* author and category.
RepeatOverwrites ==
    [][\A p \in Procs :
          (AtStored(p) /\ Moves(p)) =>
              LET d == Val(Resolved(Request(p)))
              IN  \A r \in RowsOf(store', d) :
                      /\ r.title = Book(d, Request(p))[2]
                      /\ r.author = Book(d, Request(p))[3]
                      /\ r.category = Book(d, Request(p))[4]]_vars

\* identifiers are unique in rows, so that RowsOf has at most one row
Unique(rows) ==
    \A c \in IdColumns :
        \A r1 \in rows, r2 \in rows : (r1[c] # NULL /\ r1[c] = r2[c]) => r1 = r2

\* C6 amended: a run of process_input leaves every row whose identifier a
\* request of its batch resolves to exactly as it was, and the only row of
\* that identifier: a repeat ingestion neither overwrites nor duplicates.
\* (A step that leaves a table of unique identifiers unchanged satisfies the
\* second disjunct; the first only spares its evaluation.)
RepeatLeavesRow ==
    [][\/ store' = store /\ Unique(store)
       \/ \A p \in Procs :
              \A i \in 1..Len(data[p]) :
                  LET d == Resolved(data[p][i])
                  IN  (pc[p] # "idle" /\ d # None) =>
                          \A r \in RowsOf(store, Val(d)) :
                              RowsOf(store', Val(d)) = {r}]_vars

\* C6 witness: a run is over whose batch asked, under another title, for the
\* identifier of a row the table held, and the row is as it was
RepeatLeavesRowWitness ==
    /\ pc[1] = "done"
    /\ PriorRow \in store
    /\ \E i \in 1..Len(data[1]) :
          /\ Resolved(data[1][i]) # None
          /\ PriorRow \in RowsOf(store, Val(Resolved(data[1][i])))
          /\ Get(data[1][i], "title") # Some(PriorRow.title)

\* how many times the external call op was made on arg for p's request
Calls(p, op, arg) ==
    Cardinality({i \in 1..Len(ops[p]) : ops[p][i] = Event(op, arg)})

\* p's Google Books download() has returned after a request of the PDF
PdfReturned(p) ==
    /\ pc[p] = "store"
    /\ dl[p].cls = "GoogleBooksDownloader"
    /\ Calls(p, "GET", PdfLink) = 1

\* the PDF p was answered, with status 200 and at least 50,000 bytes
PdfAccepted(p) ==
    /\ PdfReturned(p)
    /\ resp[p] # None
    /\ Val(resp[p]).status_code = 200
    /\ Val(resp[p]).content.size >= MinPdfSize

HasText(pdf) == ~pdf.raises /\ pdf.text \notin {"", " "}

\* the host has tesseract and one of gswin64c and gs
CanOcr ==
    /\ "tesseract" \in DOMAIN host /\ host["tesseract"]
    /\ \/ "gswin64c" \in DOMAIN host /\ host["gswin64c"]
       \/ "gs" \in DOMAIN host /\ host["gs"]

\* C7: convert_pdf_to_text extracts once from the PDF; when that gives text,
\* OCR is not run and the text is the result; when it gives none (empty,
\* blank or a failure) and the host has tesseract and ghostscript, OCR is run
\* exactly once, on the PDF, and its output, when it makes one, is extracted
\* from exactly once, after it; when a tool is missing, OCR is not run and
\* the result is no text.
OcrOnlyAsFallback ==
    \A p \in Procs :
        PdfAccepted(p) =>
            LET pdf == Val(resp[p]).content
                n_ocr == Calls(p, "ocrmypdf", <<"pdf.content">>)
                n_out == Calls(p, "extract_text", <<"proc.stdout">>)
            IN  /\ Calls(p, "extract_text", <<"pdf.content">>) = 1
                /\ ops[p][3] = Event("extract_text", <<"pdf.content">>)
                /\ HasText(pdf) =>
                       /\ n_ocr = 0 /\ n_out = 0
                       /\ result[p][1] = Some(pdf.text)
                /\ (~HasText(pdf) /\ CanOcr) =>
                       /\ n_ocr = 1
                       /\ result[p][1] =
                              IF /\ ~pdf.ocr_fails /\ ~pdf.ocr_raises
                                 /\ pdf.ocr_text \notin {"", " "}
                              THEN Some(pdf.ocr_text) ELSE None
                       /\ ops[p][4] = Event("ocrmypdf", <<"pdf.content">>)
                       /\ n_out = IF pdf.ocr_fails THEN 0 ELSE 1
                       /\ Len(ops[p]) = 4 + n_out
                /\ (~HasText(pdf) /\ ~CanOcr) =>
                       /\ n_ocr = 0 /\ n_out = 0
                       /\ result[p][1] = None

\* C7 witness: a PDF without text was converted by OCR, and the text of the
\* OCR output is the result
OcrOnlyAsFallbackWitness ==
    /\ PdfAccepted(1)
    /\ Val(resp[1]).content = PdfScan
    /\ Calls(1, "ocrmypdf", <<"pdf.content">>) = 1
    /\ result[1][1] = Some(PdfScan.ocr_text)

\* C8: a PDF response with a status other than 200 or a body of fewer than
\* 50,000 bytes is passed neither to extract_text nor to ocrmypdf, the
\* result of download() is (None, None), and store_in_db writes no row.
SmallPdfNotExtracted ==
    [][\A p \in Procs :
          (/\ PdfReturned(p)
           /\ resp[p] # None
           /\ \/ Val(resp[p]).status_code # 200
              \/ Val(resp[p]).content.size < MinPdfSize) =>
              /\ \A i \in 1..Len(ops[p]) : ops[p][i].op = "GET"
              /\ result[p] = NoResult
              /\ store' = store]_vars

\* C8 witness: download() has returned from a PDF answered with status 200
\* and one byte fewer than 50,000
SmallPdfNotExtractedWitness ==
    /\ PdfReturned(1)
    /\ resp[1] # None
    /\ Val(resp[1]).status_code = 200
    /\ Val(resp[1]).content.size = MinPdfSize - 1

\* C9: every row of the table has content, and a store_in_db whose
\* download() gave no text or an empty text leaves the table as it was.
NoTextNoRow ==
    [][/\ \A r \in store' : r.content # NULL /\ Val(r.content) # ""
       /\ \A p \in Procs :
              (/\ pc[p] = "store"
               /\ (result[p][1] = None \/ Val(result[p][1]) = "")) =>
                  store' = store]_vars

\* C9 witness: the first request made a store attempt and the table is empty
NoTextNoRowWitness ==
    /\ run[1] = 1 /\ pc[1] = "loop" /\ idx[1] = 2
    /\ pauses[1] = 1
    /\ store = {}

\* C10: every row has exactly one identifier column that is not null; the
\* row store_in_db writes has the identifier in the column of the source the
\* URL resolved to; and no step changes an identifier column of a row.
OneIdentifierColumn ==
    [][/\ \A r \in store' : Cardinality({c \in IdColumns : r[c] # NULL}) = 1
       /\ \A r \in store :
              \E r2 \in store' :
                  r2.id = r.id /\ \A c \in IdColumns : r2[c] = r[c]
       /\ \A p \in Procs :
              (pc[p] = "store" /\ pc'[p] = "loop") =>
                  \A r \in store' \ store :
                      r[ColumnOf(dl[p].cls)] = dl[p].id]_vars

\* C10 witness: an upsert met a row with its identifier, the later writer
\* being process 1
OneIdentifierColumnWitness ==
    /\ BothUpserted("T1")
    /\ Get(data[1][1], "title") = Some("T1")
    /\ Get(data[2][1], "title") = Some("T2")
    /\ \A r \in store : r.gutenberg_id = Some(1) /\ r.author = "Unknown"

\* p's store_in_db ends in this step
StoreEnds(p) == pc[p] = "store" /\ pc'[p] # "store"

\* download() gave p a text that is not empty
GotText(p) == result[p][1] # None /\ Val(result[p][1]) # ""

\* the title, author and category process_input takes from a request
TitleOf(item) == Val(Get(item, "title"))
AuthorOf(item) ==
    IF Get(item, "author") \in {None, Some("")} THEN "Unknown"
    ELSE Val(Get(item, "author"))
CategoryOf(item) ==
    IF Get(item, "category") \in {None, Some("")} THEN "Uncategorized"
    ELSE Val(Get(item, "category"))

\* C11: with two processes on one table, under every interleaving of their
\* pre-checks, fetches and upserts: an upsert never raises, whether or not the
\* other process has committed a row for the identifier since the pre-check;
\* after it the table holds exactly one row for the identifier, with the
\* surrogate id and identifier columns the row had if it was there, and with
\* the writer's title, author, category, source_url and content; every other
\* row is as it was, and no other step changes the table.  The table is so
\* always as the writer that committed last left it, with no duplicate.
LastWriterWins ==
    [][/\ \A p \in Procs :
              (StoreEnds(p) /\ GotText(p)) =>
                  LET mine == RowsOf(store', dl[p])
                      item == data[p][idx[p]]
                  IN  /\ pc'[p] = "loop"
                      /\ Cardinality(mine) = 1
                      /\ \A r \in mine :
                             /\ r.title = TitleOf(item)
                             /\ r.author = AuthorOf(item)
                             /\ r.category = CategoryOf(item)
                             /\ r.source_url = result[p][2]
                             /\ r.content = result[p][1]
                             /\ \A r0 \in RowsOf(store, dl[p]) :
                                    /\ r.id = r0.id
                                    /\ \A c \in IdColumns : r[c] = r0[c]
                      /\ store' \ mine = store \ RowsOf(store, dl[p])
       /\ (\A p \in Procs : ~(StoreEnds(p) /\ GotText(p))) => store' = store]_vars

\* C11 witness: both processes are done, each made a store attempt for the
\* one Gutenberg identifier under its own title, author and category, and
\* the only row holds those of process 2: process 1 committed first and the
\* upsert of process 2 met its row
LastWriterWinsWitness ==
    /\ pc[1] = "done" /\ pc[2] = "done"
    /\ pauses[1] = 1 /\ pauses[2] = 1
    /\ Get(data[1][1], "author") = None
    /\ Get(data[2][1], "author") = Some("A")
    /\ Cardinality(store) = 1
    /\ \A r \in store :
           /\ r.gutenberg_id = Some(1) /\ r.id = 1
           /\ r.author = "A" /\ r.category = "C"

\* the table the runs of a behaviour began with: the largest of the initial
\* tables that the table holds (no run writes a row of PriorRow's title)
InitialStore ==
    CHOOSE s0 \in InitStores :
        /\ s0 \subseteq store
        /\ \A s1 \in InitStores : s1 \subseteq store => s1 \subseteq s0

\* what download() of d comes to when the hosts answer as w and the host's
\* tools are h: whether it raises, and the (text, url) it returns
Downloaded(d, w, h) ==
    IF d.cls = "GoogleBooksDownloader"
    THEN LET meta == get_json(w[VolumeUrl(Val(d.id), h["api_key"])])
         IN  IF NotMeta(meta) THEN [raises |-> FALSE, res |-> NoResult]
             ELSE IF DownloadLink(Val(meta)) = "AttributeError"
             THEN [raises |-> TRUE, res |-> NoResult]
             ELSE IF DownloadLink(Val(meta)) = "none" \/ PdfRejected(w[PdfLink])
             THEN [raises |-> FALSE, res |-> NoResult]
             ELSE [raises |-> FALSE,
                   res |-> <<convert_pdf_to_text(w[PdfLink].content, h).text,
                             Some(PdfLink)>>]
    ELSE LET urls == CandidateUrls(d)
             ok == {i \in 1..Len(urls) :
                        /\ \A j \in 1..(i - 1) : ~Fetched(w[urls[j]])
                        /\ Fetched(w[urls[i]])}
         IN  [raises |-> FALSE,
              res |-> IF ok = {} THEN NoResult
                      ELSE LET i == CHOOSE k \in ok : TRUE
                           IN  TextResult(w[urls[i]], urls[i])]

\* the table one run of process_input that nothing interrupts leaves, begun
\* at request i of batch on the table rows, the hosts answering as w
RECURSIVE Uninterrupted(_, _, _, _, _)
Uninterrupted(rows, batch, i, w, h) ==
    IF i > Len(batch) THEN rows
    ELSE LET d == Resolved(batch[i])
         IN  IF d = None \/ RowsOf(rows, Val(d)) # {}
             THEN Uninterrupted(rows, batch, i + 1, w, h)
             ELSE LET got == Downloaded(Val(d), w, h)
                      book == Book(Val(d), batch[i])
                  IN  IF got.raises THEN rows
                      ELSE IF got.res[1] = None \/ Val(got.res[1]) = ""
                      THEN Uninterrupted(rows, batch, i + 1, w, h)
                      ELSE IF \E k \in 2..4 : ~Bindable(book[k]) THEN rows
                      ELSE Uninterrupted(
                               Upsert(rows, ColumnOf(Val(d).cls), book[1],
                                      book[3], book[2], book[4], got.res[2],
                                      got.res[1]),
                               batch, i + 1, w, h)

\* a run of p has been terminated, and p has been started again
Resumed(p) == Len(cut[p]) > 0 /\ pc[p] \notin {"idle", "killed"}

\* C12: when a run is terminated at any point of its batch, every row
\* committed before stays in the table as it was, then and ever after, and
\* the terminated run does nothing more; a run started afterwards on the
\* same batch passes every request whose identifier is stored without any
\* external call, and, the hosts answering the same, ends with the table that
\* one uninterrupted run on the initial table ends with.
TerminatedRunResumes ==
    [][\A p \in Procs :
          /\ \A k \in 1..Len(cut'[p]) : cut'[p][k] \subseteq store'
          /\ pc[p] = "killed" =>
                 \/ pc'[p] = "killed" /\ store' = store /\ web' = web
                 \/ pc'[p] = "loop" /\ idx'[p] = 1 /\ store' = store
          /\ (Resumed(p) /\ AtStored(p) /\ Moves(p)) =>
                 /\ ops'[p] = <<>>
                 /\ web' = web
                 /\ store' = store
          /\ (Len(cut'[p]) > 0 /\ pc'[p] \in {"done", "aborted"}) =>
                 store' = Uninterrupted(InitialStore', data'[p], 1, web', host')]_vars

\* C12 witness: a run was terminated after it had committed a row, and the
\* run started afterwards is over, having passed the stored identifier and
\* stored another
TerminatedRunResumesWitness ==
    /\ Len(cut[1]) = 1 /\ Cardinality(cut[1][1]) = 1
    /\ run[1] = MaxRuns /\ pc[1] = "done"
    /\ Cardinality(store) = 2
    /\ pauses[1] = 1

\* the sources in their order of registration, and the domain token of each
Registered == <<"GutenbergDownloader", "InternetArchiveDownloader",
                "GoogleBooksDownloader">>
Token(k) == <<"gutenberg.org", "archive.org", "books.google.">>[k]

Has(url, t) == \E i \in 1..Len(url) : url[i] = t

\* the first registered source whose token the URL contains, 0 when none
FirstSource(url) ==
    IF \E k \in 1..3 : Has(url, Token(k))
    THEN CHOOSE k \in 1..3 :
             Has(url, Token(k)) /\ \A j \in 1..(k - 1) : ~Has(url, Token(j))
    ELSE 0

\* Gutenberg's rule: the URL has an /ebooks/ segment, and what follows the
\* first one, up to a query string or a further /ebooks/, is a number
GutenbergRule(url) ==
    \E i \in 1..Len(url) :
        /\ url[i] = "/ebooks/" /\ \A j \in 1..(i - 1) : url[j] # "/ebooks/"
        /\ i < Len(url) /\ url[i + 1] \in Digits
        /\ \A j \in (i + 1)..Len(url) :
               \/ url[j] \in Digits
               \/ \E k \in (i + 2)..j :
                      url[k] \in {"?", "/ebooks/"}
                      /\ \A l \in (i + 1)..(k - 1) : url[l] \in Digits

\* Internet Archive's rule: the URL has a /details/ segment
InternetArchiveRule(url) == Has(url, "/details/")

\* Google Books' rule: an edition path with a volume segment, or an id=
\* parameter that begins a word and has a value (the /books?id= shape is
\* such a parameter)
GoogleBooksRule(url) ==
    \/ \E i \in 1..Len(url), j \in 1..Len(url) :
           /\ url[i] = "/books/edition/" /\ i + 1 < j /\ j < Len(url)
           /\ url[j] = "/"
           /\ \A k \in (i + 1)..(j - 1) : url[k] \notin SlashLexemes
           /\ url[j + 1] \notin SlashLexemes \cup QuestionLexemes
    \/ \E i \in 1..(Len(url) - 1) :
           /\ url[i] = "id="
           /\ url[i + 1] \notin AmpLexemes
           /\ i > 1 => url[i - 1] \notin WordEndLexemes

\* the URL satisfies the identifier rule of the k-th registered source
Rule(k, url) ==
    CASE k = 1 -> GutenbergRule(url)
      [] k = 2 -> InternetArchiveRule(url)
      [] k = 3 -> GoogleBooksRule(url)

\* the request has a URL and a title that are not empty, keys in any case
HasFields(item) ==
    /\ \E i \in 1..Len(item) : Lower(item[i][1]) = "url"
    /\ \E i \in 1..Len(item) : Lower(item[i][1]) = "title"
    /\ Get(item, "url") # Some(<<>>)
    /\ Get(item, "title") # Some("")

\* the step of p passes its request on without a fetch and leaves the table
\* and the run as they are
PassedOver(p) ==
    /\ pc'[p] = "loop" /\ idx'[p] = idx[p] + 1
    /\ ops'[p] = <<>>
    /\ web' = web
    /\ store' = store

\* C13: for every URL that contains the domain token of a registered source
\* and does not satisfy the identifier rule of the first registered source
\* whose token it contains, process_input asks that source alone for an
\* identifier (no later source is consulted, though its token be in the URL
\* and its rule satisfied), nothing is raised, and the request is passed
\* over: no fetch, no pre-check, the table as it was.
UnresolvedIsDropped ==
    [][\A p \in Procs :
          (AtRequest(p) /\ Moves(p) /\ HasFields(Request(p))) =>
              LET url == Val(Get(Request(p), "url"))
                  k == FirstSource(url)
              IN  (k # 0 /\ ~Rule(k, url)) =>
                      /\ PassedOver(p)
                      /\ calls'[p] = <<Event("match_downloader", url),
                                        Event("get_id", <<Registered[k]>>)>>]_vars

\* C13 witness: the run is over of a request whose URL holds the token of
\* Internet Archive without a /details/ segment, and the token of Google
\* Books with an id= parameter: Internet Archive alone was asked, and
\* nothing was fetched
UnresolvedIsDroppedWitness ==
    /\ pc[1] = "done"
    /\ Get(data[1][1], "url") = Some(<<"books.google.", "id=", "archive.org">>)
    /\ Get(data[1][1], "title") = Some("T1")
    /\ calls[1] = <<Event("match_downloader",
                           <<"books.google.", "id=", "archive.org">>),
                     Event("get_id", <<"InternetArchiveDownloader">>)>>
    /\ web = <<>>

\* the request resolves to no identity: no registered token is in its URL,
\* or the rule of the first source whose token is in it is not satisfied
NoIdentity(item) ==
    LET url == Val(Get(item, "url"))
    IN  FirstSource(url) = 0 \/ ~Rule(FirstSource(url), url)

\* C14: a request without a url or without a title (the key absent under
\* every spelling of its case, or its value empty) is passed over before
\* match_downloader or get_id is called; and every request that is dropped,
\* for a missing field, for a URL of no registered source or for an
\* identifier that does not resolve, is passed over without a pre-check,
\* without a network request and with every row of the table as it was.
MissingFieldDropsFirst ==
    [][\A p \in Procs :
          (AtRequest(p) /\ Moves(p)) =>
              /\ ~HasFields(Request(p)) => PassedOver(p) /\ calls'[p] = <<>>
              /\ (HasFields(Request(p)) /\ NoIdentity(Request(p))) =>
                     /\ PassedOver(p)
                     /\ \A i \in 1..Len(calls'[p]) :
                            calls'[p][i].op \in {"match_downloader", "get_id"}]_vars

\* C14 witness: the run is over of a request with a Gutenberg URL that
\* resolves and a title that is empty under the key spelled last in the
\* record: nothing was called for it, nothing fetched, and the table is empty
MissingFieldDropsFirstWitness ==
    /\ pc[1] = "done"
    /\ data[1][1] = << <<"url", <<"gutenberg.org", "/ebooks/", "1">> >>,
                       <<"title", "T1">>, <<"Title", "">> >>
    /\ calls[1] = <<>>
    /\ web = <<>>
    /\ store = {}

\* a response of the volumes API with status 200 and a JSON object that has
\* no PDF marked available, or no download link for it
LacksPdf(r) ==
    /\ ~r.exc /\ r.status_code = 200 /\ r.json.kind = "object"
    /\ \/ r.json.pdf = None
       \/ ~Val(r.json.pdf).isAvailable
       \/ Val(r.json.pdf).downloadLink = None

\* C15: when the metadata response of a Google Books identifier has no PDF
\* marked available or no download link, download() makes no request of a
\* PDF and returns (None, None), and store_in_db writes no row.
UnavailablePdfAbandoned ==
    [][\A p \in Procs :
          /\ (/\ pc[p] = "download" /\ pc'[p] # "download"
              /\ dl[p].cls = "GoogleBooksDownloader"
              /\ LacksPdf(web'[ops'[p][1].arg])) =>
                 /\ pc'[p] = "store"
                 /\ result'[p] = NoResult
                 /\ Len(ops'[p]) = 1
          /\ (/\ pc[p] = "store"
              /\ dl[p].cls = "GoogleBooksDownloader"
              /\ LacksPdf(web[ops[p][1].arg])) =>
                 store' = store]_vars

\* what the host of url answered: a network error or a status other than 200
Failed(url) == web[url].exc \/ web[url].status_code # 200

\* C16: for a Gutenberg identifier the three templated URLs, for an Internet
\* Archive identifier the two, are requested in their listed order, each at
\* most once for a request; a candidate is requested only when every earlier
\* one failed, by a network error or a status other than 200; and a candidate
\* that answered 200 is the last one requested.
CandidatesInOrder ==
    \A p \in Procs :
        (/\ pc[p] \in {"download", "store"}
         /\ dl[p].cls \in {"GutenbergDownloader", "InternetArchiveDownloader"}) =>
            LET urls == CandidateUrls(dl[p])
                n == Len(ops[p])
            IN  /\ Len(urls) = IF dl[p].cls = "GutenbergDownloader" THEN 3 ELSE 2
                /\ n <= Len(urls)
                /\ \A i \in 1..n : ops[p][i] = Event("GET", urls[i])
                /\ \A i \in 1..(n - 1) : Failed(urls[i])
                /\ pc[p] = "download" => \A i \in 1..n : Failed(urls[i])
                /\ pc[p] = "store" =>
                       /\ n >= 1
                       /\ Failed(urls[n]) => n = Len(urls)

\* C16 witness: download() of a Gutenberg identifier has returned after two
\* requests, the first candidate having failed and the second answered 200
CandidatesInOrderWitness ==
    /\ pc[1] = "store"
    /\ dl[1].cls = "GutenbergDownloader"
    /\ ops[1] = <<Event("GET", GutenbergUrls(1)[1]),
                   Event("GET", GutenbergUrls(1)[2])>>
    /\ Failed(GutenbergUrls(1)[1])
    /\ ~Failed(GutenbergUrls(1)[2])
    /\ result[1][2] = Some(GutenbergUrls(1)[2])

\* what is never to change of the rows: the surrogate id of each with the
\* value, null or not, of each of its identifier columns
Identities(rows) == {<<r.id, c, r[c]>> : r \in rows, c \in IdColumns}

\* C17: over the runs of the processes, one after another or interleaved, no
\* step deletes a row: every row stays, with its surrogate id and with the
\* value it has in each identifier column, so that the (column, identifier)
\* pairs of the table never become fewer.
NoRowDeleted ==
    [][/\ Identities(store) \subseteq Identities(store')
       /\ Cardinality(store) <= Cardinality(store')]_vars

\* C17 witness: to the row of an earlier run both processes upserted a row
\* for one Google Books identifier, the second upsert meeting the row of the
\* first: the table holds the earlier row and one row, of id 2, for it
NoRowDeletedWitness ==
    /\ PriorRow \in store
    /\ pauses[1] = 1 /\ pauses[2] = 1
    /\ Cardinality(store) = 2
    /\ \E r \in store : r.id = 2 /\ r.gb_title_id = Some(<<"g">>)

\* the text that the conversion of a PDF gives when it gives one: that of the
\* PDF when it has text, else that of the OCR output
TextOfPdf(pdf) == IF HasText(pdf) THEN pdf.text ELSE pdf.ocr_text

\* C18: the row that store_in_db writes for a request holds the resolved
\* identifier in the column of the source the URL belongs to and null in the
\* other two, the title of the request, its author or "Unknown" when that is
\* absent or empty, its category or "Uncategorized" when that is absent or
\* empty, as content the body of the candidate that answered (for Google
\* Books the text extracted from the PDF), and as source_url the URL of that
\* candidate (for Google Books the download link of the metadata), which is
\* not the URL of the request.
StoredRowFields ==
    [][\A p \in Procs :
          (StoreEnds(p) /\ GotText(p) /\ pc'[p] = "loop") =>
              LET item == data[p][idx[p]]
                  url == Val(Get(item, "url"))
                  cls == Registered[FirstSource(url)]
                  urls == CandidateUrls(dl[p])
              IN  \E r \in store' :
                      /\ dl[p].id # None
                      /\ r[ColumnOf(cls)] = dl[p].id
                      /\ \A c \in IdColumns \ {ColumnOf(cls)} : r[c] = NULL
                      /\ r.title = TitleOf(item)
                      /\ r.author = AuthorOf(item)
                      /\ r.category = CategoryOf(item)
                      /\ r.source_url # Some(url)
                      /\ IF cls = "GoogleBooksDownloader"
                         THEN /\ r.source_url =
                                     Val(web[ops[p][1].arg].json.pdf).downloadLink
                              /\ r.content =
                                     Some(TextOfPdf(web[Val(r.source_url)].content))
                         ELSE \E i \in 1..Len(urls) :
                                  /\ \A j \in 1..(i - 1) : Failed(urls[j])
                                  /\ ~Failed(urls[i])
                                  /\ r.source_url = Some(urls[i])
                                  /\ r.content = Some(web[urls[i]].text)]_vars

\* C18 witness: the request for an Internet Archive identifier with an empty
\* author and no category was stored from the second candidate: the row has
\* the defaults and that candidate's URL
StoredRowFieldsWitness ==
    /\ Len(data[1]) >= 1 /\ data[1][1] = RequestPool[4]
    /\ Get(data[1][1], "author") = Some("")
    /\ Get(data[1][1], "category") = None
    /\ \E r \in store :
           /\ r.ia_title_id = Some(<<"a">>)
           /\ r.title = "T1" /\ r.author = "Unknown"
           /\ r.category = "Uncategorized"
           /\ r.source_url = Some(InternetArchiveUrls(<<"a">>)[2])
           /\ r.content = Some(" a ")

\* C19: within a run, every call of store_in_db that returns is followed, in
\* the same iteration and before the next request is taken up, by a pause of
\* one time unit, whether a row was written or not, so that the fetches of
\* two requests are always a pause apart; an iteration that drops its request
\* or skips it as stored makes no pause, and nothing else pauses.
PauseAfterEachAttempt ==
    [][\A p \in Procs :
          /\ (StoreEnds(p) /\ pc'[p] = "loop") =>
                 /\ pauses'[p] = pauses[p] + 1
                 /\ idx'[p] = idx[p] + 1
          /\ (AtRequest(p) /\ Moves(p)) => pauses'[p] = pauses[p]
          /\ pc[p] \in {"download", "pdf"} => pauses'[p] = pauses[p]
          /\ pauses[p] <= idx[p] - 1]_vars

\* C19 witness: of two requests of a run the first was dropped and the
\* second made a store attempt that wrote no row: one pause was made
PauseAfterEachAttemptWitness ==
    /\ run[1] = 1 /\ pc[1] = "loop" /\ idx[1] = 3
    /\ Resolved(data[1][1]) = None
    /\ Resolved(data[1][2]) # None
    /\ store = {}
    /\ pauses[1] = 1

\* the identifier is an empty string (a Gutenberg identifier is a number)
EmptyId(cls, id) == cls # "GutenbergDownloader" /\ id = Some(<<>>)

\* C20: every identifier that resolution yields is non-empty: no downloader
\* goes on to its download() with an empty identifier, no request is made of
\* a URL templated on one, and no row holds one.
IdentifiersNotEmpty ==
    /\ \A p \in Procs : ~EmptyId(dl[p].cls, dl[p].id)
    /\ \A i \in 1..Len(InternetArchiveUrls(<<>>)) :
           InternetArchiveUrls(<<>>)[i] \notin DOMAIN web
    /\ \A r \in store : r.ia_title_id # Some(<<>>) /\ r.gb_title_id # Some(<<>>)

====
